---- MODULE Spec2Model ----
(***************************************************************************)
(* A model of src/src/convert_data.py: the csv loader (load_data), the     *)
(* record normaliser (convert_data, convert_datetime, convert_label) and   *)
(* the feature extractor (extract_features), with get_features composing   *)
(* the three.                                                              *)
(*                                                                         *)
(* Python lists are TLA+ sequences (index k of Python is index k+1 here);  *)
(* the feature matrix is a function [0..N-1 -> [0..95 -> Int]], indexed as *)
(* numpy indexes it.  A raised exception ends the run with pc = "raised"   *)
(* and the exception's class in err.                                       *)
(***************************************************************************)
EXTENDS Integers, Sequences, FiniteSets, TLC

VARIABLES
    entry,        \* the function the caller invoked
    pc,           \* position in the code
    err,          \* class of the exception propagated to the caller, or "None"
    label_str,    \* convert_label's argument when the caller invokes it directly
    file,         \* the csv file: [exists, rows]
    raw_data,     \* load_data's list / convert_data's argument
    data,         \* convert_data's list / extract_features's argument
    features,     \* extract_features: the numpy matrix
    en,           \* extract_features: position of enumerate(data)
    i,            \* extract_features: the local i (shared by both loops)
    date,         \* extract_features: the local date
    time_offset,  \* extract_features: the local time_offset
    it,           \* extract_features: position of the running range(time_range)
    names,        \* extract_features: the local names
    names_bound,  \* whether the local names has been assigned
    ret           \* the value returned to the caller

vars == <<entry, pc, err, label_str, file, raw_data, data, features, en, i,
          date, time_offset, it, names, names_bound, ret>>

(***************************************************************************)
(* Bounds of the model and constants of the program.                       *)
(***************************************************************************)
MaxLabelLen == 5
MaxFileRows == 3
MaxRecords == 2

time_range == 8
num_features_per_date == 12

(***************************************************************************)
(* Strings.  A string is a sequence of pieces: the comma, the blank, and   *)
(* pieces of text without comma or blank at their ends (a category name,   *)
(* some other text).  Concatenating pieces never yields a category name,   *)
(* as no key of label_mapping contains a comma or is another key extended. *)
(***************************************************************************)
Comma == ","
Blank == " "

label_mapping ==
    [t \in {"S-B - intern (901106)", "ISO Zertifizierung smO (2990191)",
            "ISO Zertifizierung SWO Netz (2910667)", "E - intern (901107)",
            "E - MPM (2900041)", "E - smartTT", "S-B - smartTT2.0 (901106)",
            "Noch nicht zugeordnet"} |->
       CASE t = "S-B - intern (901106)" -> 0
         [] t = "ISO Zertifizierung smO (2990191)" -> 1
         [] t = "ISO Zertifizierung SWO Netz (2910667)" -> 2
         [] t = "E - intern (901107)" -> 3
         [] t = "E - MPM (2900041)" -> 4
         [] t = "E - smartTT" -> 5
         [] t = "S-B - smartTT2.0 (901106)" -> 6
         [] t = "Noch nicht zugeordnet" -> 7]

\* str.split(sep=','): the pieces between the commas, empty ones included.
RECURSIVE SplitFrom(_, _, _)
SplitFrom(s, k, cur) ==
    IF k > Len(s) THEN <<cur>>
    ELSE IF s[k] = Comma THEN <<cur>> \o SplitFrom(s, k + 1, <<>>)
    ELSE SplitFrom(s, k + 1, Append(cur, s[k]))

split(s) == SplitFrom(s, 1, <<>>)

\* label in label_mapping: the token is exactly one key.
IsKey(tok) == Len(tok) = 1 /\ tok[1] \in DOMAIN label_mapping

\* str.strip(), which convert_label does not call.
RECURSIVE strip(_)
strip(tok) ==
    IF tok = <<>> THEN tok
    ELSE IF Head(tok) = Blank THEN strip(Tail(tok))
    ELSE IF tok[Len(tok)] = Blank THEN strip(SubSeq(tok, 1, Len(tok) - 1))
    ELSE tok

\* The list comprehension of convert_label: the codes of the tokens in
\* order, or the KeyError of the first token that is no key.
RECURSIVE MapLabels(_, _)
MapLabels(toks, acc) ==
    IF toks = <<>> THEN [err |-> "None", value |-> acc]
    ELSE IF IsKey(Head(toks))
         THEN MapLabels(Tail(toks), Append(acc, label_mapping[Head(toks)[1]]))
         ELSE [err |-> "KeyError", value |-> Head(toks)]

RECURSIVE MapLabelsStripped(_, _)
MapLabelsStripped(toks, acc) ==
    IF toks = <<>> THEN [err |-> "None", value |-> acc]
    ELSE IF IsKey(strip(Head(toks)))
         THEN MapLabelsStripped(Tail(toks),
                                Append(acc, label_mapping[strip(Head(toks))[1]]))
         ELSE [err |-> "KeyError", value |-> Head(toks)]

convert_label_stripping(s) == MapLabelsStripped(split(s), <<>>)

RECURSIVE Dedup(_)
Dedup(q) ==
    IF q = <<>> THEN q
    ELSE LET r == Dedup(SubSeq(q, 1, Len(q) - 1))
         IN  IF \E k \in 1..Len(r) : r[k] = q[Len(q)] THEN r
             ELSE Append(r, q[Len(q)])

convert_label_dedup(s) ==
    LET m == MapLabels(split(s), <<>>)
    IN  IF m.err = "None" THEN [m EXCEPT !.value = Dedup(m.value)] ELSE m

\* A decoder that gives a token outside the table the code of the
\* "Noch nicht zugeordnet" entry instead of raising.
RECURSIVE MapLabelsDefaulting(_, _)
MapLabelsDefaulting(toks, acc) ==
    IF toks = <<>> THEN [err |-> "None", value |-> acc]
    ELSE MapLabelsDefaulting(Tail(toks),
             Append(acc, IF IsKey(Head(toks)) THEN label_mapping[Head(toks)[1]]
                         ELSE label_mapping["Noch nicht zugeordnet"]))

convert_label_defaulting(s) == MapLabelsDefaulting(split(s), <<>>)

\* convert_label(label_str), lines 235-237.
convert_label(s) == MapLabels(split(s), <<>>)

(***************************************************************************)
(* The proleptic Gregorian calendar of datetime.date.                      *)
(***************************************************************************)
IsLeap(y) == y % 4 = 0 /\ (y % 100 # 0 \/ y % 400 = 0)

DaysInMonth(y, m) ==
    IF m = 2 THEN (IF IsLeap(y) THEN 29 ELSE 28)
    ELSE IF m \in {4, 6, 9, 11} THEN 30 ELSE 31

DaysBeforeYear(y) ==
    (y - 1) * 365 + (y - 1) \div 4 - (y - 1) \div 100 + (y - 1) \div 400

RECURSIVE DaysBeforeMonth(_, _)
DaysBeforeMonth(y, m) ==
    IF m = 1 THEN 0 ELSE DaysBeforeMonth(y, m - 1) + DaysInMonth(y, m - 1)

Date(y, m, d) == [kind |-> "date", year |-> y, month |-> m, day |-> d]

\* date.toordinal(): 1 for 0001-01-01.
toordinal(d) == DaysBeforeYear(d.year) + DaysBeforeMonth(d.year, d.month) + d.day

\* date.fromordinal(n), for n >= 1.
fromordinal(n) ==
    LET y == CHOOSE yy \in (n \div 366)..(n \div 365 + 1) :
                 DaysBeforeYear(yy) < n /\ n <= DaysBeforeYear(yy + 1)
        r == n - DaysBeforeYear(y)
        m == CHOOSE mm \in 1..12 :
                 DaysBeforeMonth(y, mm) < r
                 /\ r <= DaysBeforeMonth(y, mm) + DaysInMonth(y, mm)
    IN  Date(y, m, r - DaysBeforeMonth(y, m))

\* date + datetime.timedelta(days=n)
AddDays(d, n) == fromordinal(toordinal(d) + n)

\* date.weekday(): Monday is 0.
weekday(d) == (toordinal(d) + 6) % 7

ValidDate(y, m, d) ==
    /\ y \in 1..9999
    /\ m \in 1..12
    /\ d \in 1..DaysInMonth(y, m)

ValidTime(h, mi, s) == h \in 0..23 /\ mi \in 0..59 /\ s \in 0..59

(***************************************************************************)
(* holidays.Germany(state='NI', ...): the public holidays of Lower Saxony  *)
(* under their German names.  Years outside the list given at             *)
(* construction are added on first lookup, so every year is answered.      *)
(***************************************************************************)
\* Easter Sunday of year y (Gregorian), as dateutil.easter computes it.
EasterSunday(y) ==
    LET a == y % 19
        b == y \div 100
        c == y % 100
        d == b \div 4
        e == b % 4
        f == (b + 8) \div 25
        g == (b - f + 1) \div 3
        h == (19 * a + b - d - g + 15) % 30
        j == c \div 4
        k == c % 4
        l == (32 + 2 * e + 2 * j - h - k) % 7
        m == (a + 11 * h + 22 * l) \div 451
        p == h + l - 7 * m + 114
    IN  Date(y, p \div 31, (p % 31) + 1)

\* holiday_dates.get(day): the holiday's name, "" when day is no holiday.
HolidayName(day) ==
    LET es == toordinal(EasterSunday(day.year))
        o  == toordinal(day)
    IN  CASE day.month = 1 /\ day.day = 1 -> "Neujahr"
          [] o = es - 2 -> "Karfreitag"
          [] o = es + 1 -> "Ostermontag"
          [] day.month = 5 /\ day.day = 1 -> "Erster Mai"
          [] o = es + 39 /\ ~(day.month = 5 /\ day.day = 1) -> "Christi Himmelfahrt"
          [] o = es + 50 -> "Pfingstmontag"
          [] day.month = 10 /\ day.day = 3 -> "Tag der Deutschen Einheit"
          [] day.month = 10 /\ day.day = 31 /\ day.year >= 2017 -> "Reformationstag"
          [] day.month = 12 /\ day.day = 25 -> "Erster Weihnachtstag"
          [] day.month = 12 /\ day.day = 26 -> "Zweiter Weihnachtstag"
          [] OTHER -> ""

\* day in holiday_dates
IsHoliday(day) == HolidayName(day) # ""

(***************************************************************************)
(* Conversion helpers (lines 229-237).                                     *)
(*                                                                         *)
(* A date or time field is modelled as the list of its components, already *)
(* cut at '.' or ':'; a component is a numeral (int() yields its value) or *)
(* other text (int() raises ValueError).                                   *)
(***************************************************************************)
Num(n) == [int |-> TRUE, v |-> n]
Txt == [int |-> FALSE, v |-> 0]

AllInt(parts) == \A k \in 1..Len(parts) : parts[k].int

datetime(y, m, d, h, mi, s) ==
    [kind |-> "datetime", year |-> y, month |-> m, day |-> d,
     hour |-> h, minute |-> mi, second |-> s]

\* convert_datetime(date_str, time_str): (err, value)
convert_datetime(date_str, time_str) ==
    IF ~AllInt(date_str) \/ ~AllInt(time_str)
    THEN [err |-> "ValueError", value |-> <<>>]
    ELSE IF Len(date_str) < 3 \/ Len(time_str) < 3
    THEN [err |-> "IndexError", value |-> <<>>]
    ELSE IF ~ValidDate(date_str[3].v, date_str[2].v, date_str[1].v)
            \/ ~ValidTime(time_str[1].v, time_str[2].v, time_str[3].v)
    THEN [err |-> "ValueError", value |-> <<>>]
    ELSE [err |-> "None",
          value |-> datetime(date_str[3].v, date_str[2].v, date_str[1].v,
                             time_str[1].v, time_str[2].v, time_str[3].v)]

\* One pass of convert_data's loop body for the raw row (lines 112-123):
\* the record [begin, end, labels], or the first exception raised.
ConvertRow(row) ==
    IF Len(row) < 1 THEN [err |-> "IndexError", value |-> <<>>]
    ELSE IF Len(row) < 2 THEN [err |-> "IndexError", value |-> <<>>]
    ELSE LET b == convert_datetime(row[1], row[2])
         IN  IF b.err # "None" THEN b
             ELSE IF Len(row) < 3 THEN [err |-> "IndexError", value |-> <<>>]
             ELSE LET e == convert_datetime(row[1], row[3])
                  IN  IF e.err # "None" THEN e
                      ELSE IF Len(row) < 4
                      THEN [err |-> "IndexError", value |-> <<>>]
                      ELSE LET l == convert_label(row[4])
                           IN  IF l.err # "None"
                               THEN [err |-> l.err, value |-> <<>>]
                               ELSE [err |-> "None",
                                     value |-> <<b.value, e.value, l.value>>]

(***************************************************************************)
(* The inputs.                                                             *)
(***************************************************************************)
Intern == "E - intern (901107)"
MPM == "E - MPM (2900041)"
Unknown == "Unknown Category"

LabelPieces == {Comma, Blank, Intern, MPM, Unknown}

RECURSIVE SeqsUpTo(_, _)
SeqsUpTo(S, n) ==
    IF n = 0 THEN {<<>>}
    ELSE LET shorter == SeqsUpTo(S, n - 1)
         IN  shorter \cup {Append(q, x) : q \in shorter, x \in S}

LabelStrings == SeqsUpTo(LabelPieces, MaxLabelLen)

DateField(d, m, y) == <<Num(d), Num(m), Num(y)>>
TimeField(h, mi, s) == <<Num(h), Num(mi), Num(s)>>

HeaderRow == << <<Txt>>, <<Txt>>, <<Txt>>, <<"Kategorie">> >>

FileRows ==
    { HeaderRow,
      << DateField(15, 6, 2016), TimeField(9, 0, 0), TimeField(10, 30, 0),
         <<Intern>> >>,
      << DateField(25, 12, 2016), TimeField(8, 0, 0), TimeField(9, 0, 0),
         <<Intern, Comma, MPM>> >>,
      << DateField(28, 3, 2016), TimeField(13, 0, 0), TimeField(14, 0, 0),
         <<Unknown>> >>,
      << DateField(2, 1, 2015), TimeField(9, 0, 0), TimeField(9, 30, 0),
         <<Intern, Comma, Blank, MPM>> >>,
      << DateField(31, 2, 2016), TimeField(9, 0, 0), TimeField(10, 0, 0),
         <<MPM>> >>,
      <<>> }

NoFile == [exists |-> FALSE, rows |-> <<>>]

Files == {NoFile} \cup {[exists |-> TRUE, rows |-> r] : r \in SeqsUpTo(FileRows, MaxFileRows)}

\* Records handed to extract_features directly.  Line 167 reads the
\* attribute date of the record's first entry without calling it: on a
\* datetime.datetime (what convert_data builds) that is the bound method, on
\* any other object whatever the attribute holds, here a datetime.date.
Dated(d, h) == [kind |-> "dated", date |-> d, hour |-> h]

Anchors ==
    { Date(2016, 6, 15), Date(2016, 12, 25), Date(2016, 3, 28),
      Date(2015, 1, 2), Date(2016, 3, 1) }

DirectRecords ==
    { <<Dated(d, 9), Dated(d, 10), <<3>> >> : d \in Anchors }
    \cup { << Dated(Date(2016, 12, 25), 17), Dated(Date(2016, 12, 26), 1), <<3, 4>> >>,
           << datetime(2016, 6, 15, 9, 0, 0), datetime(2016, 6, 15, 10, 30, 0), <<3>> >>,
           << datetime(2016, 12, 25, 8, 0, 0), datetime(2016, 12, 25, 9, 0, 0), <<3, 4>> >> }

DirectData == SeqsUpTo(DirectRecords, MaxRecords)

(***************************************************************************)
(* extract_features: the per-offset block (lines 169-206) and the names.   *)
(***************************************************************************)
initial_date == Date(2015, 1, 1)

default_names ==
    <<"Ordinal", "Year", "Month", "Day of Year", "Day of Month", "Weekday",
      "Weekend", "Week of year", "Week of month", "Holiday", "Christmas",
      "Easter">>

\* np.zeros((n, num_features_per_date*time_range))
zeros(n) == [r \in 0..(n - 1) |-> [c \in 0..(num_features_per_date * time_range - 1) |-> 0]]

\* features[r, c] = v
Put(f, r, c, v) == [f EXCEPT ![r][c] = v]

Bool(b) == IF b THEN 1 ELSE 0

\* data[i][0].date: the attribute, not a call.
DateAttr(obj) == IF obj.kind = "datetime" THEN [kind |-> "method"] ELSE obj.date

\* name+' of day {}'.format(i-4), a name kept as the pair (label, number).
NameOf(label, k) == [label |-> label, day |-> k - 4]

NamesFor(k) == [n \in 1..Len(default_names) |-> NameOf(default_names[n], k)]

\* Lines 195-206 on the matrix f whose column 9+offset is already written.
HolidayColumns(f, r, offset, day) ==
    IF IsHoliday(day)
    THEN LET holiday == HolidayName(day)
         IN  IF holiday = "Erster Weihnachtstag" \/ holiday = "Zweiter Weihnachtstag"
             THEN Put(f, r, 10 + offset, 1)
             ELSE IF holiday = "Ostermontag"
                  THEN Put(f, r, 11 + offset, 1)
                  ELSE f
    ELSE Put(Put(f, r, 10 + offset, 0), r, 11 + offset, 0)

\* Lines 189-191: np.floor(features[i,3] / 7) and np.floor(features[i,4] / 7).
WeekColumns(f, r, offset) ==
    Put(Put(f, r, 7 + offset, f[r][3] \div 7), r, 8 + offset, f[r][4] \div 7)

\* Lines 169-206 for row r and time_offset t, date d being a datetime.date.
\* time_offset-time_range/2 is a float without fraction, as time_range is even.
ComputeBlock(f, r, d, t) ==
    LET day    == AddDays(d, t - time_range \div 2)
        offset == t * num_features_per_date
        f0 == Put(f, r, 0 + offset, toordinal(day) - toordinal(initial_date))
        f1 == Put(f0, r, 1 + offset, day.year)
        f2 == Put(f1, r, 2 + offset, day.month)
        f3 == Put(f2, r, 3 + offset,
                  toordinal(day) - toordinal(Date(day.year, 1, 1)) + 1)
        f4 == Put(f3, r, 4 + offset, day.day)
        f5 == Put(f4, r, 5 + offset, weekday(day))
        f6 == Put(f5, r, 6 + offset,
                  Bool(f5[r][5 + offset] = 5 \/ f5[r][5 + offset] = 6))
        f8 == WeekColumns(f6, r, offset)
        f9 == Put(f8, r, 9 + offset, Bool(IsHoliday(day)))
    IN  HolidayColumns(f9, r, offset, day)

(***************************************************************************)
(* The state machine.                                                      *)
(***************************************************************************)
Init ==
    /\ entry \in {"convert_label", "get_features", "extract_features"}
    /\ err = "None"
    /\ ret = <<>>
    /\ raw_data = <<>>
    /\ features = zeros(0)
    /\ en = 0
    /\ i = 0
    /\ date = [kind |-> "unbound"]
    /\ time_offset = 0
    /\ it = 0
    /\ names = <<>>
    /\ names_bound = FALSE
    /\ \/ /\ entry = "convert_label"
          /\ pc = "convert_label"
          /\ label_str \in LabelStrings
          /\ file = NoFile
          /\ data = <<>>
       \/ /\ entry = "get_features"
          /\ pc = "load_data"
          /\ label_str = <<>>
          /\ file \in Files
          /\ data = <<>>
       \/ /\ entry = "extract_features"
          /\ pc = "extract_features"
          /\ label_str = <<>>
          /\ file = NoFile
          /\ data \in DirectData

Raise(e) == pc' = "raised" /\ err' = e

\* convert_label(label_str), called by the caller itself.
CallConvertLabel ==
    /\ pc = "convert_label"
    /\ LET r == convert_label(label_str)
       IN  IF r.err = "None"
           THEN pc' = "returned" /\ ret' = r.value /\ err' = err
           ELSE Raise(r.err) /\ ret' = ret
    /\ UNCHANGED <<entry, label_str, file, raw_data, data, features, en, i,
                   date, time_offset, it, names, names_bound>>

\* load_data, lines 83-85: open the file.
LoadOpen ==
    /\ pc = "load_data"
    /\ IF file.exists
       THEN pc' = "load_rows" /\ raw_data' = <<>> /\ err' = err
       ELSE Raise("FileNotFoundError") /\ raw_data' = raw_data
    /\ UNCHANGED <<entry, label_str, file, data, features, en, i, date,
                   time_offset, it, names, names_bound, ret>>

\* load_data, lines 86-87: one row read and appended.
LoadRow ==
    /\ pc = "load_rows"
    /\ Len(raw_data) < Len(file.rows)
    /\ raw_data' = Append(raw_data, file.rows[Len(raw_data) + 1])
    /\ UNCHANGED <<entry, pc, err, label_str, file, data, features, en, i,
                   date, time_offset, it, names, names_bound, ret>>

\* load_data, lines 88-89: del raw_data[0]; return raw_data.
LoadDropHeader ==
    /\ pc = "load_rows"
    /\ Len(raw_data) = Len(file.rows)
    /\ IF raw_data = <<>>
       THEN Raise("IndexError") /\ raw_data' = raw_data
       ELSE pc' = "convert_data" /\ raw_data' = Tail(raw_data) /\ err' = err
    /\ data' = <<>>
    /\ UNCHANGED <<entry, label_str, file, features, en, i, date,
                   time_offset, it, names, names_bound, ret>>

\* convert_data, lines 111-123: one pass of the loop; i is len(data).
ConvertStep ==
    /\ pc = "convert_data"
    /\ Len(data) < Len(raw_data)
    /\ LET r == ConvertRow(raw_data[Len(data) + 1])
       IN  IF r.err = "None"
           THEN data' = Append(data, r.value) /\ UNCHANGED <<pc, err>>
           ELSE Raise(r.err) /\ data' = data
    /\ UNCHANGED <<entry, label_str, file, raw_data, features, en, i, date,
                   time_offset, it, names, names_bound, ret>>

\* convert_data, line 125: return data, which get_features hands on.
ConvertReturn ==
    /\ pc = "convert_data"
    /\ Len(data) = Len(raw_data)
    /\ pc' = "extract_features"
    /\ UNCHANGED <<entry, err, label_str, file, raw_data, data, features, en,
                   i, date, time_offset, it, names, names_bound, ret>>

\* extract_features, lines 156-161.
ExtractInit ==
    /\ pc = "extract_features"
    /\ features' = zeros(Len(data))
    /\ en' = 0
    /\ pc' = "for_sample"
    /\ UNCHANGED <<entry, err, label_str, file, raw_data, data, i, date,
                   time_offset, it, names, names_bound, ret>>

\* Lines 163-167: the next (i, sample) of enumerate(data); date = data[i][0].date
NextSample ==
    /\ pc = "for_sample"
    /\ en < Len(data)
    /\ i' = en
    /\ en' = en + 1
    /\ date' = DateAttr(data[en + 1][1])
    /\ pc' = "for_time_offset"
    /\ it' = 0
    /\ UNCHANGED <<entry, err, label_str, file, raw_data, data, features,
                   time_offset, names, names_bound, ret>>

\* Lines 168-206: one pass of the loop over time_offset.  Adding a timedelta
\* to the bound method raises TypeError.
OffsetStep ==
    /\ pc = "for_time_offset"
    /\ it < time_range
    /\ time_offset' = it
    /\ IF date.kind = "date"
       THEN /\ features' = ComputeBlock(features, i, date, time_offset')
            /\ it' = it + 1
            /\ UNCHANGED <<pc, err>>
       ELSE /\ Raise("TypeError")
            /\ UNCHANGED <<features, it>>
    /\ UNCHANGED <<entry, label_str, file, raw_data, data, en, i, date,
                   names, names_bound, ret>>

\* Lines 216-219, inside the loop over the samples: names = [].
NamesInit ==
    /\ pc = "for_time_offset"
    /\ it = time_range
    /\ names' = <<>>
    /\ names_bound' = TRUE
    /\ it' = 0
    /\ pc' = "for_names"
    /\ UNCHANGED <<entry, err, label_str, file, raw_data, data, features, en,
                   i, date, time_offset, ret>>

\* Lines 220-222: one pass of the loop "for i in range(time_range)", which
\* assigns the local i that enumerate assigned before.
NamesStep ==
    /\ pc = "for_names"
    /\ it < time_range
    /\ i' = it
    /\ names' = names \o NamesFor(i')
    /\ it' = it + 1
    /\ UNCHANGED <<entry, pc, err, label_str, file, raw_data, data, features,
                   en, date, time_offset, names_bound, ret>>

\* The loop over the names is exhausted: back to enumerate(data).
NamesDone ==
    /\ pc = "for_names"
    /\ it = time_range
    /\ pc' = "for_sample"
    /\ UNCHANGED <<entry, err, label_str, file, raw_data, data, features, en,
                   i, date, time_offset, it, names, names_bound, ret>>

\* Line 224: return features, names.
ExtractReturn ==
    /\ pc = "for_sample"
    /\ en = Len(data)
    /\ IF names_bound
       THEN pc' = "returned" /\ ret' = <<features, names>> /\ err' = err
       ELSE Raise("UnboundLocalError") /\ ret' = ret
    /\ UNCHANGED <<entry, label_str, file, raw_data, data, features, en, i,
                   date, time_offset, it, names, names_bound>>

Next ==
    \/ CallConvertLabel
    \/ LoadOpen
    \/ LoadRow
    \/ LoadDropHeader
    \/ ConvertStep
    \/ ConvertReturn
    \/ ExtractInit
    \/ NextSample
    \/ OffsetStep
    \/ NamesInit
    \/ NamesStep
    \/ NamesDone
    \/ ExtractReturn

Spec == Init /\ [][Next]_vars

(***************************************************************************)
(* Vocabulary of the properties.                                           *)
(***************************************************************************)
Ended == pc \in {"returned", "raised"}

NumColumns == time_range * num_features_per_date

\* A normalized record: what convert_data builds, [begin, end, labels] with
\* begin and end datetime.datetime objects.
Normalized(rec) == rec[1].kind = "datetime" /\ rec[2].kind = "datetime"

AllNormalized == \A k \in 1..Len(data) : Normalized(data[k])

\* The date component of a record's start: d.date() for a datetime, the
\* attribute for the other objects.
StartDate(rec) ==
    IF rec[1].kind = "datetime"
    THEN Date(rec[1].year, rec[1].month, rec[1].day)
    ELSE rec[1].date

\* extract_features has been called on data and has ended.
ExtractEnded ==
    \/ entry = "extract_features" /\ Ended
    \/ entry = "get_features" /\ pc = "returned"
    \/ entry = "get_features" /\ pc = "raised"
         /\ err \in {"TypeError", "UnboundLocalError"}

\* Feature f of offset t of a row anchored at d, as section 4.3 states it.
DayOfYear(day) == toordinal(day) - toordinal(Date(day.year, 1, 1)) + 1

ExpectedFeature(d, t, f) ==
    LET day   == AddDays(d, t - time_range \div 2)
        first == AddDays(d, 0 - time_range \div 2)
        name  == HolidayName(day)
    IN  CASE f = 0 -> toordinal(day) - toordinal(Date(2015, 1, 1))
          [] f = 1 -> day.year
          [] f = 2 -> day.month
          [] f = 3 -> DayOfYear(day)
          [] f = 4 -> day.day
          [] f = 5 -> weekday(day)
          [] f = 6 -> Bool(weekday(day) \in {5, 6})
          [] f = 7 -> DayOfYear(first) \div 7
          [] f = 8 -> first.day \div 7
          [] f = 9 -> Bool(name # "")
          [] f = 10 -> Bool(name \in {"Erster Weihnachtstag", "Zweiter Weihnachtstag"})
          [] f = 11 -> Bool(name = "Ostermontag")

ExpectedRow(d) ==
    [c \in 0..(NumColumns - 1) |->
        ExpectedFeature(d, c \div num_features_per_date, c % num_features_per_date)]

\* Column f of block t of row r of matrix m.
Col(m, r, t, f) == m[r][t * num_features_per_date + f]

\* The day block t of the row of record rec stands for.
BlockDay(rec, t) == AddDays(StartDate(rec), t - time_range \div 2)

HolidayFlagsOf(m, r, rec) ==
    \A t \in 0..(time_range - 1) :
        LET name == HolidayName(BlockDay(rec, t))
        IN  /\ Col(m, r, t, 9) = 1 <=> IsHoliday(BlockDay(rec, t))
            /\ Col(m, r, t, 10) = 1 <=>
                   name \in {"Erster Weihnachtstag", "Zweiter Weihnachtstag"}
            /\ Col(m, r, t, 11) = 1 <=> name = "Ostermontag"
            /\ Col(m, r, t, 9) \in {0, 1}
            /\ Col(m, r, t, 10) \in {0, 1}
            /\ Col(m, r, t, 11) \in {0, 1}
            /\ ~(Col(m, r, t, 10) = 1 /\ Col(m, r, t, 11) = 1)
            /\ ~IsHoliday(BlockDay(rec, t)) =>
                   Col(m, r, t, 9) = 0 /\ Col(m, r, t, 10) = 0 /\ Col(m, r, t, 11) = 0

WeekColumnsOf(m, r) ==
    \A t \in 0..(time_range - 1) :
        /\ Col(m, r, t, 7) = Col(m, r, 0, 3) \div 7
        /\ Col(m, r, t, 8) = Col(m, r, 0, 4) \div 7

OrdinalsOf(m, r, rec) ==
    /\ \A t \in 0..(time_range - 2) : Col(m, r, t + 1, 0) = Col(m, r, t, 0) + 1
    /\ Col(m, r, time_range \div 2, 0) =
           toordinal(StartDate(rec)) - toordinal(Date(2015, 1, 1))

NamesOrdered(ns) ==
    /\ Len(ns) = NumColumns
    /\ \A t \in 0..(time_range - 1) : \A f \in 0..(num_features_per_date - 1) :
           ns[t * num_features_per_date + f + 1] =
               [label |-> default_names[f + 1], day |-> t - time_range \div 2]

ShapeOf(m, n) ==
    /\ DOMAIN m = 0..(n - 1)
    /\ \A r \in DOMAIN m : DOMAIN m[r] = 0..(NumColumns - 1)

(***************************************************************************)
(* What extract_features yields whenever it returns.  It returns only for  *)
(* records whose attribute date is a date value; these properties say      *)
(* nothing of a run that raises.                                           *)
(***************************************************************************)
ReturnedMatrixAsStated ==
    (entry = "extract_features" /\ pc = "returned") =>
        /\ ShapeOf(ret[1], Len(data))
        /\ NamesOrdered(ret[2])
        /\ \A r \in 0..(Len(data) - 1) :
               /\ ret[1][r] = ExpectedRow(StartDate(data[r + 1]))
               /\ HolidayFlagsOf(ret[1], r, data[r + 1])
               /\ WeekColumnsOf(ret[1], r)
               /\ OrdinalsOf(ret[1], r, data[r + 1])

ReturnedMatrixReached ==
    /\ entry = "extract_features" /\ pc = "returned"
    /\ Len(data) = MaxRecords
    /\ \E r \in 0..(Len(data) - 1) : \E t \in 0..(time_range - 1) :
           /\ Col(ret[1], r, t, 10) = 1
           /\ Col(ret[1], r, t, 3) \div 7 # Col(ret[1], r, t, 7)

\* load_data returns the rows after the first in file order, and
\* convert_data builds one record per raw row at the same index.
LoadAndConvertInOrder ==
    (entry = "get_features" /\ pc \notin {"load_data", "load_rows"}
       /\ ~(pc = "raised" /\ err \in {"FileNotFoundError"})
       /\ file.rows # <<>>) =>
        /\ raw_data = Tail(file.rows)
        /\ Len(data) <= Len(raw_data)
        /\ \A k \in 1..Len(data) : data[k] = ConvertRow(raw_data[k]).value
        /\ pc \notin {"convert_data", "raised"} => Len(data) = Len(raw_data)

(***************************************************************************)
(* The claims.                                                             *)
(***************************************************************************)

\* C1: for every sequence of N normalized records, the empty one included,
\* extract_features returns a matrix of N rows and
\* time_range * num_features_per_date columns.
C1_ReturnsShapedMatrix ==
    (ExtractEnded /\ AllNormalized) =>
        pc = "returned" /\ ShapeOf(ret[1], Len(data))

\* C2: for every sequence of records extract_features returns a list of
\* time_range * num_features_per_date names, the name at t*12 + f being the
\* f-th label followed by ' of day ' and t - time_range//2.
C2_ReturnsOrderedNames ==
    (ExtractEnded /\ AllNormalized) =>
        pc = "returned" /\ NamesOrdered(ret[2])

\* C3: for every normalized record the anchor date is the date component of
\* its start timestamp, and the row computed from it has column 0 growing by
\* one from block to block, block time_range//2 holding the anchor's ordinal
\* minus that of 2015-01-01.
C3_AnchorIsStartDate ==
    /\ (pc = "for_time_offset" /\ Normalized(data[i + 1])) =>
           date = StartDate(data[i + 1])
    /\ (ExtractEnded /\ AllNormalized /\ data # <<>>) =>
           /\ pc = "returned"
           /\ \A r \in 0..(Len(data) - 1) : OrdinalsOf(ret[1], r, data[r + 1])

\* C4: in every block of the matrix computed for normalized records columns
\* 9, 10 and 11 agree with the holiday calendar: holiday, Christmas day,
\* Easter Monday; all three 0 on a day that is no holiday, never 10 and 11
\* together, and no error for a holiday of another name.
C4_HolidayFlags ==
    (ExtractEnded /\ AllNormalized /\ data # <<>>) =>
        /\ pc = "returned"
        /\ \A r \in 0..(Len(data) - 1) : HolidayFlagsOf(ret[1], r, data[r + 1])

\* A raw row with a label token that is no key of label_mapping.
HasUnknownToken(row) ==
    /\ Len(row) >= 4
    /\ \E k \in 1..Len(split(row[4])) : ~IsKey(split(row[4])[k])

\* The date and time fields of a raw row convert.
FieldsConvert(row) ==
    /\ Len(row) >= 4
    /\ convert_datetime(row[1], row[2]).err = "None"
    /\ convert_datetime(row[1], row[3]).err = "None"

FirstUnknown ==
    CHOOSE k \in 1..Len(raw_data) :
        /\ HasUnknownToken(raw_data[k])
        /\ \A j \in 1..(k - 1) : ~HasUnknownToken(raw_data[j])

PastConvertData ==
    /\ entry = "get_features"
    /\ pc \notin {"load_data", "load_rows", "convert_data"}
    /\ \E k \in 1..Len(raw_data) : HasUnknownToken(raw_data[k])

\* C5 as stated: if any row holds a label token that is no key of the label
\* table, the pipeline fails with the unknown-category error (KeyError),
\* which reaches the caller, and returns neither records nor a matrix.
C5_FailsWithUnknownCategory ==
    PastConvertData => pc = "raised" /\ err = "KeyError" /\ ret = <<>>

\* C5 as amended: if any row of raw_data holds a label token that is no key,
\* the pipeline raises and returns nothing, no later row being converted; the
\* exception is the KeyError exactly when the date and time fields of every
\* row up to and including the first such row convert, and otherwise the
\* ValueError or IndexError of the first field that does not.
C5_FailsBeforeReturning ==
    PastConvertData =>
        /\ pc = "raised"
        /\ ret = <<>>
        /\ Len(data) < FirstUnknown
        /\ IF \A k \in 1..FirstUnknown : FieldsConvert(raw_data[k])
           THEN err = "KeyError" /\ Len(data) = FirstUnknown - 1
           ELSE err \in {"ValueError", "IndexError"}

\* The rows before the one with the unknown token were converted, and the
\* KeyError still left the caller without any record.
C5_Witness ==
    /\ PastConvertData
    /\ err = "KeyError"
    /\ Len(data) >= 1
    /\ FirstUnknown = Len(data) + 1

\* A label string all of whose comma-separated tokens are keys: keys at the
\* odd places, commas at the even ones.
AllTokensKeys(s) ==
    /\ Len(s) % 2 = 1
    /\ \A k \in 1..Len(s) :
           IF k % 2 = 1 THEN s[k] \in DOMAIN label_mapping ELSE s[k] = Comma

\* C6: for a label string whose tokens are all keys convert_label returns
\* one code per token, the k-th code that of the k-th token (order kept,
\* repeated tokens repeated), and never the empty list.
C6_CodesInTokenOrder ==
    (entry = "convert_label" /\ Ended /\ AllTokensKeys(label_str)) =>
        /\ pc = "returned"
        /\ ret # <<>>
        /\ Len(ret) = (Len(label_str) + 1) \div 2
        /\ \A k \in 1..Len(ret) : ret[k] = label_mapping[label_str[2 * k - 1]]

\* A repeated token came out as a repeated code.
C6_Witness ==
    /\ entry = "convert_label" /\ pc = "returned"
    /\ label_str = <<Intern, Comma, MPM, Comma, Intern>>
    /\ ret = <<3, 4, 3>>

\* Some token of s is a key once trimmed, but not as written.
HasPaddedKey(s) ==
    \E k \in 1..Len(split(s)) :
        /\ IsKey(strip(split(s)[k]))
        /\ ~IsKey(split(s)[k])

\* C7 as stated: tokens are trimmed before the lookup, so a label string
\* whose tokens are keys up to leading or trailing blanks decodes to the
\* codes of those keys.
C7_TokensTrimmed ==
    (entry = "convert_label" /\ Ended
       /\ \A k \in 1..Len(split(label_str)) : IsKey(strip(split(label_str)[k]))) =>
        /\ pc = "returned"
        /\ Len(ret) = Len(split(label_str))
        /\ \A k \in 1..Len(ret) :
               ret[k] = label_mapping[strip(split(label_str)[k])[1]]

\* C7 as amended: tokens are looked up as written, so a label string with a
\* token that differs from a key only by leading or trailing blanks fails
\* with the unknown-category KeyError.
C7_PaddedTokenUnknown ==
    (entry = "convert_label" /\ Ended /\ HasPaddedKey(label_str)) =>
        pc = "raised" /\ err = "KeyError"

\* 'E - intern (901107), E - MPM (2900041)' was decoded and failed.
C7_Witness ==
    /\ entry = "convert_label" /\ Ended
    /\ label_str = <<Intern, Comma, Blank, MPM>>
    /\ err = "KeyError"

\* C8: for a file of k >= 1 rows whose rows after the first convert,
\* load_data returns rows 2..k in order, convert_data one record per raw row
\* at the same index, and get_features a matrix of k-1 rows, row j computed
\* from file row j+2.
C8_OneRowPerFileRow ==
    (entry = "get_features" /\ Ended /\ file.exists /\ Len(file.rows) >= 1
       /\ \A k \in 2..Len(file.rows) : ConvertRow(file.rows[k]).err = "None") =>
        /\ pc = "returned"
        /\ raw_data = Tail(file.rows)
        /\ Len(data) = Len(file.rows) - 1
        /\ \A k \in 1..Len(data) : data[k] = ConvertRow(file.rows[k + 1]).value
        /\ ShapeOf(ret[1], Len(file.rows) - 1)
        /\ \A r \in 0..(Len(data) - 1) :
               ret[1][r] = ExpectedRow(StartDate(ConvertRow(file.rows[r + 2]).value))

\* C9: row i of the matrix computed for normalized records is a function of
\* record i's start date alone, whatever the times, the labels and the other
\* records are.
C9_RowFromStartDateOnly ==
    (ExtractEnded /\ AllNormalized /\ data # <<>>) =>
        /\ pc = "returned"
        /\ \A r \in 0..(Len(data) - 1) : ret[1][r] = ExpectedRow(StartDate(data[r + 1]))

\* C10: in the row of every normalized record, columns 7 and 8 of every block
\* are floor(column 3 of block 0 / 7) and floor(column 4 of block 0 / 7).
C10_WeekColumnsFromFirstBlock ==
    (ExtractEnded /\ AllNormalized /\ data # <<>>) =>
        /\ pc = "returned"
        /\ \A r \in 0..(Len(data) - 1) : WeekColumnsOf(ret[1], r)

====
